---- MODULE Spec2Model ----
(***************************************************************************)
(* Idempotent-request middleware of the backend template, in its two       *)
(* variants:                                                               *)
(*   "fastapi"  - src/app/middlewares/idempotent_request.py                *)
(*                (Starlette BaseHTTPMiddleware, dispatch/_handle_request) *)
(*   "litestar" - src/app/routers/middlewares/idempotent_request.py        *)
(*                (ASGI middleware, handle/intercept_send)                 *)
(* Every request is an independently suspendable task; its position is     *)
(* rq[r].pc and each action below is the code between two awaits.          *)
(* Strings and byte strings are sequences, so that concatenation and join  *)
(* are computed as the code computes them.                                 *)
(***************************************************************************)
EXTENDS Integers, Sequences, FiniteSets, TLC

\* ------------------------------------------------------------------ bounds
NReq == 2           \* request tasks handled by one deployment
MaxTtl == 2         \* the configured ttl, in clock ticks (self._ttl)
MaxLen == 1         \* bytes a client chooses in a path, a body or a key
MaxChunks == 3      \* http.request messages a request body arrives in
MaxStatements == 1  \* statements a block runs on its database session
MaxVersion == 3     \* highest version number a ClickHouse migration is given
MaxRuns == 2        \* migration commands run one after the other

\* ------------------------------------------------------------------- state
VARIABLES
  variant,      \* which middleware the deployment runs: "fastapi" | "litestar"
  redis_pool,   \* litestar: self._redis_pool, "None" or "Pool"
  cache,        \* Redis: key -> None | Some([val, ex]), ex = ticks left (0: no expiry)
  rq,           \* per request task: position, locals, what the client got
  written,      \* history: per key, who wrote the current record and what
                \* response that request's client was given
  probe         \* one function of the middleware run on its own: its
                \* arguments, locals and result

Req == 1..NReq

\* --------------------------------------------------------------- constants
FIRST_CLIENT_ERROR_HTTP_CODE == 400

allowed_methods == {<<"P","O","S","T">>, <<"P","U","T">>, <<"P","A","T","C","H">>}

POST  == <<"P","O","S","T">>
GET   == <<"G","E","T">>

\* Option values: <<>> is None, <<x>> is x.
None == <<>>
Some(x) == <<x>>

\* ------------------------------------------------------------------ inputs
\* A request: method, path, raw body bytes and the X-Idempotency-Key header
\* (None when the header is absent, Some(<<>>) when it is present but empty).
Requests ==
  { [method |-> POST,  path |-> <<"/","a">>, body |-> <<"x">>, key |-> Some(<<"k">>)],
    [method |-> GET,   path |-> <<"/","a">>, body |-> <<"x">>, key |-> Some(<<"k">>)],
    [method |-> POST,  path |-> <<"/","a">>, body |-> <<"x">>, key |-> None],
    [method |-> POST,  path |-> <<"/","a">>, body |-> <<"x">>, key |-> Some(<<>>)] }

NoRequest == [method |-> <<>>, path |-> <<>>, body |-> <<>>, key |-> None]

\* What the downstream handler can answer: a status, a header list and the
\* body as the chunks it streams.
TextPlain == << <<"content-type", "text/plain; charset=utf-8">> >>

\* A header list in which one name occurs twice.
TwoCookies ==
  << <<"content-type", "application/json">>,
     <<"set-cookie", "a=1">>, <<"set-cookie", "b=2">> >>

Responses ==
  { [status |-> 201, headers |-> TextPlain, chunks |-> << <<"u">> >>],
    [status |-> 201, headers |-> TwoCookies, chunks |-> << <<"u">>, <<"v">> >>],
    [status |-> 500, headers |-> TextPlain, chunks |-> << <<"e">> >>] }

NoResponse == [status |-> 0, headers |-> <<>>, chunks |-> <<>>]

\* ------------------------------------------------------------ pure helpers
\* b"".join(chunks)
RECURSIVE join(_)
join(chunks) ==
  IF chunks = <<>> THEN <<>> ELSE Head(chunks) \o join(Tail(chunks))

\* SHA-256 is taken as injective on its input bytes: the digest stands for
\* exactly the byte string that was hashed.
sha256(bytes) == <<"sha256">> \o bytes

\* A fingerprint that leaves the request body out.
Fingerprint_NoBody(method, path, body, idempotency_key) ==
  sha256(method \o path \o idempotency_key)

\* sha256(method.encode() + path.encode() + body + idempotency_key.encode())
Fingerprint(method, path, body, idempotency_key) ==
  sha256(method \o path \o body \o idempotency_key)

\* _redis_key.format(key=key)
redis_key(key) == <<"request:">> \o key

\* A cache key that depends on the middleware that computes it.
KeyOf_PerInstance(q) ==
  redis_key(Fingerprint(q.method, q.path, q.body, q.key[1]) \o <<variant>>)

\* A cache key that also covers the caller's Authorization header.
KeyOf_PerCaller(q) ==
  redis_key(Fingerprint(q.method, q.path, q.body, q.key[1]) \o <<q.authorization>>)

KeyOf(q) == redis_key(Fingerprint(q.method, q.path, q.body, q.key[1]))

\* Intercepts without the method test.
Intercepts_AnyMethod(q) ==
  /\ q.key # None
  /\ q.key[1] # <<>>

\* not (idempotency_key and method in self.allowed_methods)
Intercepts(q) ==
  /\ q.key # None
  /\ q.key[1] # <<>>
  /\ q.method \in allowed_methods

\* The keys the middleware can compute for these requests.
RedisKeys == { KeyOf(q) : q \in { x \in Requests : Intercepts(x) } }

\* ------------------------------------------------------------ header dicts
\* A Python dict of str -> str: a sequence of <<name, value>> pairs with
\* distinct names, in insertion order.
HasName(d, name) == \E i \in 1..Len(d) : d[i][1] = name

\* d[name] = value
DictSet(d, name, value) ==
  IF HasName(d, name)
    THEN [i \in 1..Len(d) |-> IF d[i][1] = name THEN <<name, value>> ELSE d[i]]
    ELSE Append(d, <<name, value>>)

\* d.get(name, default)
DictGet(d, name, default) ==
  IF HasName(d, name)
    THEN (CHOOSE p \in { d[i] : i \in 1..Len(d) } : p[1] = name)[2]
    ELSE default

\* for name, value in message.get("headers", []): response_headers[name] = value
RECURSIVE StoreHeaders(_, _)
StoreHeaders(d, headers) ==
  IF headers = <<>> THEN d
  ELSE StoreHeaders(DictSet(d, Head(headers)[1], Head(headers)[2]), Tail(headers))

\* Headers.__getitem__: the value of the first header with that name
FirstValue(headers, name) ==
  headers[CHOOSE i \in 1..Len(headers) :
            /\ headers[i][1] = name
            /\ \A j \in 1..(i - 1) : headers[j][1] # name][2]

\* dict(response.headers): iterates keys() and reads each through __getitem__
RECURSIVE DictOfHeadersFrom(_, _, _)
DictOfHeadersFrom(d, headers, all) ==
  IF headers = <<>> THEN d
  ELSE DictOfHeadersFrom(DictSet(d, Head(headers)[1], FirstValue(all, Head(headers)[1])),
                         Tail(headers), all)

DictOfHeaders(headers) == DictOfHeadersFrom(<<>>, headers, headers)

\* str.lower() on the header names that occur
lower(name) ==
  CASE name = "Content-Type" -> "content-type"
    [] name = "Set-Cookie"   -> "set-cookie"
    [] OTHER                 -> name

\* ---------------------------------------------------------- cached records
\* The bytes stored under a key.  kind "cbor" is the encoding of a dict with
\* body, headers and status_code; the other kinds are values cbor2_loads or
\* the field accesses after it cannot handle, and the empty byte string.
NoData == [body |-> <<>>, headers |-> <<>>, status_code |-> 0]

cbor2_dumps(cached_data) == [kind |-> "cbor", data |-> cached_data]

\* cbor2_loads(v) returns, and the result has body, headers and status_code
Decodes(v) == v.kind = "cbor"

cbor2_loads(v) == v.data

\* A truth test that takes a stored record for nothing.
Truthy_OnlyEmpty(v) == v.kind = "empty"

\* truthiness of the bytes redis.get returned
Truthy(v) == v.kind # "empty"

CorruptValues == { [kind |-> k, data |-> NoData] : k \in {"undecodable", "nofields", "empty"} }

\* ----------------------------------------------------------- ASGI messages
StartMessage(status, headers) ==
  [type |-> "http.response.start", status |-> status, headers |-> headers,
   body |-> <<>>, more_body |-> FALSE]

BodyMessage(body, more_body) ==
  [type |-> "http.response.body", status |-> 0, headers |-> <<>>,
   body |-> body, more_body |-> more_body]

\* The messages a response is sent as: the start, then one message per chunk.
Messages(resp) ==
  <<StartMessage(resp.status, resp.headers)>> \o
  [i \in 1..Len(resp.chunks) |-> BodyMessage(resp.chunks[i], i < Len(resp.chunks))]

\* ------------------------------------------------------------------ replay
\* Starlette adds "; charset=utf-8" to a text/* media type without charset.
WithCharset(content_type) ==
  CASE content_type = "text/plain" -> "text/plain; charset=utf-8"
    [] OTHER                       -> content_type

\* {k: v for k, v in cached_data["headers"].items() if k.lower() != "content-type"}
RECURSIVE WithoutContentType(_)
WithoutContentType(d) ==
  IF d = <<>> THEN <<>>
  ELSE IF lower(Head(d)[1]) = "content-type"
    THEN WithoutContentType(Tail(d))
    ELSE <<Head(d)>> \o WithoutContentType(Tail(d))

\* Response.init_headers: the given headers with lower-cased names, then
\* content-length and content-type when the given headers lack them.
InitHeaders(headers, body, media_type, status_code) ==
  LET raw == [i \in 1..Len(headers) |-> <<lower(headers[i][1]), headers[i][2]>>]
      len == IF /\ ~HasName(raw, "content-length")
                /\ ~(status_code < 200 \/ status_code \in {204, 304})
               THEN << <<"content-length", ToString(Len(body))>> >>
               ELSE <<>>
      typ == IF ~HasName(raw, "content-type")
               THEN << <<"content-type", WithCharset(media_type)>> >>
               ELSE <<>>
  IN  raw \o len \o typ

\* fastapi, cache hit: Response(content=..., media_type=..., headers=...,
\* status_code=...) as the messages it is sent as.
CachedResponse(cached_data) ==
  << StartMessage(cached_data.status_code,
                  InitHeaders(WithoutContentType(cached_data.headers),
                              cached_data.body,
                              DictGet(cached_data.headers, "content-type", "application/json"),
                              cached_data.status_code)),
     BodyMessage(cached_data.body, FALSE) >>

\* litestar, cache hit: the two messages _send_cached_response sends.
send_cached_response(cached_data) ==
  << StartMessage(cached_data.status_code,
                  [i \in 1..Len(cached_data.headers) |->
                     <<lower(cached_data.headers[i][1]), cached_data.headers[i][2]>>]),
     BodyMessage(cached_data.body, FALSE) >>

\* ------------------------------------------------------------------- state
vars == <<variant, redis_pool, cache, rq, written, probe>>

\* No function is run on its own.
NoProbe == [pc |-> "none"]

ttl == MaxTtl

\* response_status = 200, the first statement of every intercept_send call
response_status == 200

NoSource == [status |-> 0, headers |-> <<>>, body |-> <<>>]
NoWrite  == [src |-> NoSource, conc |-> {}, gone |-> FALSE]
\* History of a key whose record has expired or was evicted.
Lapsed   == [src |-> NoSource, conc |-> {}, gone |-> TRUE]

IdleTask ==
  [pc |-> "idle", req |-> NoRequest, intercepted |-> FALSE, key |-> <<>>,
   resp |-> NoResponse, pending |-> <<>>,
   response_chunks |-> <<>>, response_headers |-> <<>>,
   sent |-> <<>>, err |-> "none",
   \* history of the task
   invoked |-> 0, lookup |-> "none", wrote |-> 0, overwrote |-> FALSE,
   set_failed |-> FALSE, replay_src |-> NoSource, after_expiry |-> FALSE]

\* LitestarApp.__init__ builds IdempotentRequestMiddleware() and __init__
\* leaves _redis_pool None; the attribute is the embedding application's to
\* assign, so a deployment that gave the middleware a pool is explored too.
Init ==
  /\ \/ variant = "fastapi"  /\ redis_pool = "Pool"
     \/ variant = "litestar" /\ redis_pool \in {"None", "Pool"}
  /\ cache = [k \in RedisKeys |-> None]
  /\ written = [k \in RedisKeys |-> NoWrite]
  /\ rq = [r \in Req |-> IdleTask]
  /\ probe = NoProbe

\* Requests are taken in the order of their task numbers.
CanStart(r) == rq[r].pc = "idle" /\ (IF r = 1 THEN TRUE ELSE rq[r - 1].pc # "idle")

\* The entry is a record the middleware stored.
LiveRecord(entry) == entry # None /\ Decodes(entry[1].val)

\* Tasks that looked the key up, missed, and have not stored yet.
InFlight(k) ==
  { r \in Req : rq[r].intercepted /\ rq[r].key = k
                /\ rq[r].pc \in {"call_next", "send", "set"} }

\* ----------------------------------------------------------------- actions
\* fastapi: dispatch up to the first await on Redis
\* (request.body(), the fingerprint and the key are computed on the way).
dispatch(r, q) ==
  /\ variant = "fastapi"
  /\ CanStart(r)
  /\ rq' = [rq EXCEPT ![r] =
       IF ~Intercepts(q)
         THEN [@ EXCEPT !.pc = "call_next", !.req = q]
         ELSE [@ EXCEPT !.pc = "get", !.req = q, !.intercepted = TRUE,
                        !.key = KeyOf(q)]]
  /\ UNCHANGED <<probe, variant, redis_pool, cache, written>>

\* handle whose _redis() hands out a connection whether a pool is set or not.
handle_PoolNotTested(r, q) ==
  /\ variant = "litestar"
  /\ CanStart(r)
  /\ rq' = [rq EXCEPT ![r] =
       IF ~Intercepts(q)
         THEN [@ EXCEPT !.pc = "call_next", !.req = q]
         ELSE [@ EXCEPT !.pc = "get", !.req = q, !.intercepted = TRUE,
                        !.key = KeyOf(q)]]
  /\ UNCHANGED <<probe, variant, redis_pool, cache, written>>

\* litestar: handle up to the first await on Redis; _redis() raises
\* ValueError when no pool is set.
handle(r, q) ==
  /\ variant = "litestar"
  /\ CanStart(r)
  /\ rq' = [rq EXCEPT ![r] =
       IF ~Intercepts(q)
         THEN [@ EXCEPT !.pc = "call_next", !.req = q]
         ELSE IF redis_pool = "None"
           THEN [@ EXCEPT !.pc = "done", !.req = q, !.intercepted = TRUE,
                          !.err = "ValueError"]
           ELSE [@ EXCEPT !.pc = "get", !.req = q, !.intercepted = TRUE,
                          !.key = KeyOf(q)]]
  /\ UNCHANGED <<probe, variant, redis_pool, cache, written>>

\* History: what the key held when the task looked it up.  An empty byte
\* string is to the code what an absent key is.
Seen(entry) ==
  IF entry = None THEN "miss"
  ELSE CASE entry[1].val.kind = "cbor"  -> "hit"
         [] entry[1].val.kind = "empty" -> "miss"
         [] OTHER                       -> "corrupt"

\* AfterGet without the return after the replay: the request goes on downstream.
AfterGet_NoReturn(t, entry, src) ==
  LET seen == Seen(entry)
  IN  IF entry # None /\ Truthy(entry[1].val)
        THEN IF Decodes(entry[1].val)
          THEN [t EXCEPT !.pc = "call_next", !.lookup = seen, !.replay_src = src,
                         !.sent = IF variant = "fastapi"
                                    THEN CachedResponse(cbor2_loads(entry[1].val))
                                    ELSE send_cached_response(cbor2_loads(entry[1].val))]
          ELSE [t EXCEPT !.pc = "done", !.lookup = seen, !.err = "DecodeError"]
        ELSE [t EXCEPT !.pc = "call_next", !.lookup = seen]

\* AfterGet that never looks at the reply: every lookup is handled as a miss.
AfterGet_HitIgnored(t, entry, src) ==
  LET seen == Seen(entry)
  IN  [t EXCEPT !.pc = "call_next", !.lookup = seen]

\* AfterGet for which a key stays used up once a record was stored under it:
\* a request finding the record lapsed is answered with nothing.
AfterGet_KeyStaysUsed(t, entry, src) ==
  LET seen == Seen(entry)
  IN  IF t.after_expiry
        THEN [t EXCEPT !.pc = "done", !.lookup = seen]
      ELSE IF entry # None /\ Truthy(entry[1].val)
        THEN IF Decodes(entry[1].val)
          THEN [t EXCEPT !.pc = "done", !.lookup = seen, !.replay_src = src,
                         !.sent = IF variant = "fastapi"
                                    THEN CachedResponse(cbor2_loads(entry[1].val))
                                    ELSE send_cached_response(cbor2_loads(entry[1].val))]
          ELSE [t EXCEPT !.pc = "done", !.lookup = seen, !.err = "DecodeError"]
        ELSE [t EXCEPT !.pc = "call_next", !.lookup = seen]

\* What the task does with the reply of redis.get(redis_key).
AfterGet(t, entry, src) ==
  LET seen == Seen(entry)
  IN  IF entry # None /\ Truthy(entry[1].val)
        THEN IF Decodes(entry[1].val)
          THEN [t EXCEPT !.pc = "done", !.lookup = seen, !.replay_src = src,
                         !.sent = IF variant = "fastapi"
                                    THEN CachedResponse(cbor2_loads(entry[1].val))
                                    ELSE send_cached_response(cbor2_loads(entry[1].val))]
          ELSE [t EXCEPT !.pc = "done", !.lookup = seen, !.err = "DecodeError"]
        ELSE [t EXCEPT !.pc = "call_next", !.lookup = seen]

\* get that claims the key on a miss (SET NX of an in-flight marker).
get_ClaimsKey(r) ==
  /\ rq[r].pc = "get"
  /\ rq' = [rq EXCEPT ![r] = AfterGet(@, cache[rq[r].key], written[rq[r].key].src)]
  /\ cache' = IF cache[rq[r].key] = None
               THEN [cache EXCEPT ![rq[r].key] =
                       Some([val |-> [kind |-> "undecodable", data |-> NoData], ex |-> ttl])]
               ELSE cache
  /\ UNCHANGED <<probe, variant, redis_pool, written>>

\* get that restarts the ttl of the record it finds (GETEX with ex=ttl).
get_RefreshesTtl(r) ==
  /\ rq[r].pc = "get"
  /\ rq' = [rq EXCEPT ![r] =
              AfterGet([@ EXCEPT !.after_expiry =
                          cache[rq[r].key] = None /\ written[rq[r].key].gone],
                       cache[rq[r].key], written[rq[r].key].src)]
  /\ cache' = IF LiveRecord(cache[rq[r].key])
               THEN [cache EXCEPT ![rq[r].key] = Some([@[1] EXCEPT !.ex = ttl])]
               ELSE cache
  /\ UNCHANGED <<probe, variant, redis_pool, written>>

\* if cached_response := await redis.get(redis_key): ... return
get(r) ==
  /\ rq[r].pc = "get"
  /\ \/ rq' = [rq EXCEPT ![r] =
                AfterGet([@ EXCEPT !.after_expiry =
                            cache[rq[r].key] = None /\ written[rq[r].key].gone],
                         cache[rq[r].key], written[rq[r].key].src)]
     \/ \* the backend is unreachable: redis.get raises
        rq' = [rq EXCEPT ![r] = [@ EXCEPT !.pc = "done", !.lookup = "fail",
                                          !.err = "CacheError"]]
  /\ UNCHANGED <<probe, variant, redis_pool, cache, written>>

\* What the task does with the response the downstream handler returned.
AfterCallNext(t, resp) ==
  IF ~t.intercepted
    THEN [t EXCEPT !.pc = "done", !.resp = resp, !.sent = Messages(resp)]
  ELSE IF variant = "fastapi"
    THEN IF resp.status < 400
      THEN [t EXCEPT !.pc = "set", !.resp = resp]
      ELSE [t EXCEPT !.pc = "done", !.resp = resp, !.sent = Messages(resp)]
    ELSE [t EXCEPT !.pc = "send", !.resp = resp, !.pending = Messages(resp)]

\* fastapi: the handler has started a response and its body stream raises
\* between two chunks, after n of them.  Below 400 the middleware is reading the body (the list
\* comprehension raises, nothing was sent); from 400 on the response was
\* returned and is on its way to the client.
AfterBrokenStream(t, resp, n) ==
  IF t.intercepted /\ resp.status < 400
    THEN [t EXCEPT !.pc = "done", !.resp = resp, !.err = "StreamError"]
    ELSE [t EXCEPT !.pc = "done", !.resp = resp, !.err = "StreamError",
                   !.sent = SubSeq(Messages(resp), 1, 1 + n)]

\* await call_next(request) / await next_app(scope, new_receive, intercept_send):
\* the downstream handler runs, with its side effect.
call_next(r) ==
  /\ rq[r].pc = "call_next"
  /\ \/ \E resp \in Responses :
          rq' = [rq EXCEPT ![r] = AfterCallNext([@ EXCEPT !.invoked = @ + 1], resp)]
     \/ \E resp \in Responses, n \in {1} :
          /\ variant = "fastapi"
          /\ rq[r].intercepted
          /\ n < Len(resp.chunks)
          /\ rq' = [rq EXCEPT ![r] =
                      AfterBrokenStream([@ EXCEPT !.invoked = @ + 1], resp, n)]
     \/ \* the handler raises
        rq' = [rq EXCEPT ![r] = [@ EXCEPT !.pc = "done", !.invoked = @ + 1,
                                          !.err = "HandlerError"]]
  /\ UNCHANGED <<probe, variant, redis_pool, cache, written>>

\* litestar: one call of intercept_send, up to its await on redis.set
AfterSend(t, message) ==
  IF message.type = "http.response.start"
    THEN [t EXCEPT !.response_headers = StoreHeaders(@, message.headers),
                   !.sent = Append(@, message),
                   !.pending = Tail(@)]
    ELSE [t EXCEPT !.response_chunks = IF message.body # <<>>
                                         THEN Append(@, message.body) ELSE @,
                   !.sent = Append(@, message),
                   !.pending = Tail(@),
                   !.pc = IF ~message.more_body
                             /\ response_status < FIRST_CLIENT_ERROR_HTTP_CODE
                            THEN "set"
                            ELSE IF Tail(t.pending) = <<>> THEN "done" ELSE "send"]

intercept_send(r) ==
  /\ variant = "litestar"
  /\ rq[r].pc = "send"
  /\ rq[r].pending # <<>>
  /\ rq' = [rq EXCEPT ![r] = AfterSend(@, Head(rq[r].pending))]
  /\ UNCHANGED <<probe, variant, redis_pool, cache, written>>

\* litestar: the response stops between two body chunks: the handler raises
\* in mid-stream, or send raises because the client is gone.  The exception
\* leaves next_app and handle.
stream_breaks(r) ==
  /\ variant = "litestar"
  /\ rq[r].pc = "send"
  /\ rq[r].pending # <<>>
  /\ Len(rq[r].sent) >= 2
  /\ rq' = [rq EXCEPT ![r] = [@ EXCEPT !.pc = "done", !.err = "StreamError"]]
  /\ UNCHANGED <<probe, variant, redis_pool, cache, written>>

\* CachedData with capture buffers that all request tasks append to: the
\* body stored is whatever every task has captured so far.
CachedData_SharedBuffers(t) ==
  LET RECURSIVE all(_)
      all(r) == IF r > NReq THEN <<>>
                ELSE (IF variant = "fastapi"
                        THEN join(rq[r].resp.chunks)
                        ELSE join(rq[r].response_chunks)) \o all(r + 1)
  IN  [body |-> all(1),
       headers |-> IF variant = "fastapi"
                     THEN DictOfHeaders(t.resp.headers) ELSE t.response_headers,
       status_code |-> IF variant = "fastapi" THEN t.resp.status ELSE response_status]

\* The dict that is encoded and stored.
CachedData(t) ==
  IF variant = "fastapi"
    THEN [body |-> join(t.resp.chunks),
          headers |-> DictOfHeaders(t.resp.headers),
          status_code |-> t.resp.status]
    ELSE [body |-> join(t.response_chunks),
          headers |-> t.response_headers,
          status_code |-> response_status]

\* A store that clears every other key of the database first.
RedisSet_FlushesOthers(c, k, t) ==
  [j \in DOMAIN c |->
     IF j = k THEN Some([val |-> cbor2_dumps(CachedData(t)), ex |-> ttl]) ELSE None]

\* redis.set without ex: the entry never expires.
RedisSet_NoExpiry(c, k, t) ==
  [c EXCEPT ![k] = Some([val |-> cbor2_dumps(CachedData(t)), ex |-> 0])]

\* redis.set(redis_key, cbor2_dumps(cached_data), ex=self._ttl)
RedisSet(c, k, t) == [c EXCEPT ![k] = Some([val |-> cbor2_dumps(CachedData(t)), ex |-> ttl])]

\* await redis.set(...); fastapi then returns the response
set(r) ==
  /\ rq[r].pc = "set"
  /\ \/ /\ cache' = RedisSet(cache, rq[r].key, rq[r])
        /\ written' = [written EXCEPT ![rq[r].key] =
             [src |-> [status |-> rq[r].resp.status, headers |-> rq[r].resp.headers,
                       body |-> join(rq[r].resp.chunks)],
              conc |-> InFlight(rq[r].key) \ {r}, gone |-> FALSE]]
        /\ rq' = [rq EXCEPT ![r] =
             [@ EXCEPT !.pc = "done", !.wrote = @ + 1,
                       !.overwrote = LiveRecord(cache[rq[r].key]),
                       !.sent = IF variant = "fastapi" THEN Messages(rq[r].resp) ELSE @]]
     \/ \* fastapi: the record is stored, the response is returned, and the
        \* client goes away between two body chunks, after n messages
        \E n \in {2} :
          /\ variant = "fastapi"
          /\ n < Len(Messages(rq[r].resp))
          /\ cache' = RedisSet(cache, rq[r].key, rq[r])
          /\ written' = [written EXCEPT ![rq[r].key] =
               [src |-> [status |-> rq[r].resp.status, headers |-> rq[r].resp.headers,
                         body |-> join(rq[r].resp.chunks)],
                conc |-> InFlight(rq[r].key) \ {r}, gone |-> FALSE]]
          /\ rq' = [rq EXCEPT ![r] =
               [@ EXCEPT !.pc = "done", !.wrote = @ + 1,
                         !.overwrote = LiveRecord(cache[rq[r].key]),
                         !.err = "ClientDisconnect",
                         !.sent = SubSeq(Messages(rq[r].resp), 1, n)]]
     \/ \* the backend is unreachable: redis.set raises
        /\ rq' = [rq EXCEPT ![r] = [@ EXCEPT !.pc = "done", !.set_failed = TRUE,
                                             !.err = "CacheError"]]
        /\ UNCHANGED <<cache, written>>
  /\ UNCHANGED <<probe, variant, redis_pool>>

\* ------------------------------------------------------------- environment
\* One unit of time passes in Redis: entries count down and expire.
Tick ==
  /\ \E k \in RedisKeys : cache[k] # None /\ cache[k][1].ex > 0
  /\ cache' = [k \in RedisKeys |->
       IF cache[k] = None \/ cache[k][1].ex = 0 THEN cache[k]
       ELSE IF cache[k][1].ex = 1 THEN None
       ELSE Some([cache[k][1] EXCEPT !.ex = @ - 1])]
  /\ written' = [k \in RedisKeys |->
       IF cache'[k] # None THEN written[k]
       ELSE IF LiveRecord(cache[k]) THEN Lapsed
       ELSE written[k]]
  /\ UNCHANGED <<probe, variant, redis_pool, rq>>

\* Redis evicts an entry.
Evict(k) ==
  /\ cache[k] # None
  /\ cache' = [cache EXCEPT ![k] = None]
  /\ written' = [written EXCEPT ![k] =
                   IF LiveRecord(cache[k]) THEN Lapsed ELSE NoWrite]
  /\ UNCHANGED <<probe, variant, redis_pool, rq>>

\* Another client of the same Redis leaves bytes under the key that are not
\* the encoding of a record.
Corrupt(k, v) ==
  /\ cache[k] # Some([val |-> v, ex |-> 0])
  /\ cache' = [cache EXCEPT ![k] = Some([val |-> v, ex |-> 0])]
  /\ written' = [written EXCEPT ![k] = NoWrite]
  /\ UNCHANGED <<probe, variant, redis_pool, rq>>

Next ==
  \/ \E r \in Req, q \in Requests : dispatch(r, q)
  \/ \E r \in Req, q \in Requests : handle(r, q)
  \/ \E r \in Req : get(r)
  \/ \E r \in Req : call_next(r)
  \/ \E r \in Req : intercept_send(r)
  \/ \E r \in Req : stream_breaks(r)
  \/ \E r \in Req : set(r)
  \/ Tick
  \/ \E k \in RedisKeys : Evict(k)
  \/ \E k \in RedisKeys, v \in CorruptValues : Corrupt(k, v)

Spec == Init /\ [][Next]_vars

\* ------------------------------------------- the litestar app as shipped
\* LitestarApp.__init__: middleware=[..., IdempotentRequestMiddleware()], and
\* IdempotentRequestMiddleware.__init__ sets self._redis_pool = None.
InitShipped ==
  /\ variant = "litestar"
  /\ redis_pool = "None"
  /\ cache = [k \in RedisKeys |-> None]
  /\ written = [k \in RedisKeys |-> NoWrite]
  /\ rq = [r \in Req |-> IdleTask]
  /\ probe = NoProbe

\* The steps of the middleware that a deployment started this way can take,
\* beside other clients of the same Redis.
NextShipped ==
  \/ \E r \in Req, q \in Requests : handle(r, q)
  \/ \E r \in Req : call_next(r)
  \/ \E k \in RedisKeys : Evict(k)
  \/ \E k \in RedisKeys, v \in CorruptValues : Corrupt(k, v)

SpecShipped == InitShipped /\ [][NextShipped]_vars

\* ------------------------------------------------------------ two callers
\* The same POST with the same idempotency key, sent by two callers: they
\* differ in the Authorization header and in the query string, which
\* request.url.path / scope["path"] does not contain.
CallerRequests ==
  { [method |-> POST, path |-> <<"/","a">>, body |-> <<"x">>, key |-> Some(<<"k">>),
     query |-> "", authorization |-> "alice"],
    [method |-> POST, path |-> <<"/","a">>, body |-> <<"x">>, key |-> Some(<<"k">>),
     query |-> "u=1", authorization |-> "bob"] }

CallerKeys == { KeyOf(q) : q \in CallerRequests }

\* A deployment with Redis at hand and an empty cache.
InitCallers ==
  /\ variant \in {"fastapi", "litestar"}
  /\ redis_pool = "Pool"
  /\ cache = [k \in CallerKeys |-> None]
  /\ written = [k \in CallerKeys |-> NoWrite]
  /\ rq = [r \in Req |-> IdleTask]
  /\ probe = NoProbe

\* The middleware's steps, while no record expires or is evicted.
NextCallers ==
  \/ \E r \in Req, q \in CallerRequests : dispatch(r, q)
  \/ \E r \in Req, q \in CallerRequests : handle(r, q)
  \/ \E r \in Req : get(r)
  \/ \E r \in Req : call_next(r)
  \/ \E r \in Req : intercept_send(r)
  \/ \E r \in Req : set(r)

SpecCallers == InitCallers /\ [][NextCallers]_vars

\* ------------------------------------------------------- two fingerprints
\* Two protected requests that differ in the idempotency key.
TwoKeyRequests ==
  { [method |-> POST, path |-> <<"/","a">>, body |-> <<"x">>, key |-> Some(<<"k">>)],
    [method |-> POST, path |-> <<"/","a">>, body |-> <<"x">>, key |-> Some(<<"j">>)] }

TwoKeys == { KeyOf(q) : q \in TwoKeyRequests }

\* A deployment with Redis at hand and an empty cache.
InitTwoKeys ==
  /\ variant \in {"fastapi", "litestar"}
  /\ redis_pool = "Pool"
  /\ cache = [k \in TwoKeys |-> None]
  /\ written = [k \in TwoKeys |-> NoWrite]
  /\ rq = [r \in Req |-> IdleTask]
  /\ probe = NoProbe

\* The middleware's steps alone: Redis has no other client and no record
\* expires.
NextTwoKeys ==
  \/ \E r \in Req, q \in TwoKeyRequests : dispatch(r, q)
  \/ \E r \in Req, q \in TwoKeyRequests : handle(r, q)
  \/ \E r \in Req : get(r)
  \/ \E r \in Req : call_next(r)
  \/ \E r \in Req : intercept_send(r)
  \/ \E r \in Req : set(r)

SpecTwoKeys == InitTwoKeys /\ [][NextTwoKeys]_vars

\* ------------------------------------------------- the fingerprint alone
\* Byte strings of at most MaxLen bytes.
Bytes == {"a", "b"}
ByteStrings == UNION { [1..n -> Bytes] : n \in 0..MaxLen }

\* The four fields of a request the key is computed from: a method, a path
\* (which starts with "/"), a body and a non-empty idempotency key.
Tuples ==
  [method : {POST, <<"P","U","T">>},
   path   : { <<"/">> \o s : s \in ByteStrings },
   body   : ByteStrings,
   key    : { Some(<<"k">> \o s) : s \in ByteStrings }]

\* Two requests arrive at a middleware with an empty cache.
InitFp ==
  /\ variant \in {"fastapi", "litestar"}
  /\ redis_pool = "Pool"
  /\ cache = [k \in RedisKeys |-> None]
  /\ written = [k \in RedisKeys |-> NoWrite]
  /\ rq = [r \in Req |-> IdleTask]
  /\ \E a \in Tuples, b \in Tuples :
       probe = [pc |-> "start", a |-> a, b |-> b, key_a |-> <<>>, key_b |-> <<>>]

\* key = sha256(...).hexdigest(); redis_key = self._redis_key.format(key=key),
\* for each of the two requests.
fingerprint ==
  /\ probe.pc = "start"
  /\ probe' = [probe EXCEPT !.pc = "hashed",
                            !.key_a = KeyOf(probe.a),
                            !.key_b = KeyOf(probe.b)]
  /\ UNCHANGED <<variant, redis_pool, cache, rq, written>>

NextFp == fingerprint

SpecFp == InitFp /\ [][NextFp]_vars

\* ------------------------------------------------ the request body alone
\* The body chunks a client may send; an empty chunk is allowed.
Chunks == { <<>>, <<"x">>, <<"y", "z">> }

ChunkLists == UNION { [1..n -> Chunks] : n \in 1..MaxChunks }

RequestMessage(body, more_body) ==
  [type |-> "http.request", body |-> body, more_body |-> more_body]

\* The http.request messages a body is received as, the last with
\* more_body false.
RequestMessages(chunks) ==
  [i \in 1..Len(chunks) |-> RequestMessage(chunks[i], i < Len(chunks))]

\* An assignment in place of the +=: the body is the last chunk.
Accumulate_LastOnly(body, chunk) == chunk

\* body += message.get("body", b"")
Accumulate(body, chunk) == body \o chunk

\* A client has sent the body of an intercepted request in some chunks.
InitBody ==
  /\ variant \in {"fastapi", "litestar"}
  /\ redis_pool = "Pool"
  /\ cache = [k \in RedisKeys |-> None]
  /\ written = [k \in RedisKeys |-> NoWrite]
  /\ rq = [r \in Req |-> IdleTask]
  /\ \E chunks \in ChunkLists :
       probe = [pc |-> "receive", chunks |-> chunks,
                stream |-> RequestMessages(chunks),
                body |-> <<>>, more_body |-> TRUE, read |-> <<>>]

\* litestar, _get_request_body: one turn of `while more_body`
get_request_body ==
  /\ variant = "litestar"
  /\ probe.pc = "receive"
  /\ probe.more_body
  /\ probe.stream # <<>>
  /\ LET message == Head(probe.stream)
     IN  probe' = IF message.type = "http.request"
                    THEN [probe EXCEPT !.stream = Tail(@),
                                       !.body = Accumulate(@, message.body),
                                       !.more_body = message.more_body,
                                       !.pc = IF message.more_body
                                                THEN "receive" ELSE "call_next"]
                    ELSE [probe EXCEPT !.stream = Tail(@)]
  /\ UNCHANGED <<variant, redis_pool, cache, rq, written>>

\* fastapi, await request.body(): Starlette reads the stream to its end,
\* joins the chunks and keeps the result in the request.
request_body ==
  /\ variant = "fastapi"
  /\ probe.pc = "receive"
  /\ probe' = [probe EXCEPT !.stream = <<>>,
                            !.body = join([i \in 1..Len(probe.stream) |->
                                             probe.stream[i].body]),
                            !.more_body = FALSE,
                            !.pc = "call_next"]
  /\ UNCHANGED <<variant, redis_pool, cache, rq, written>>

\* The handler reads its request body from the receive it was given:
\* new_receive (litestar) or the request call_next wraps (fastapi), which
\* answer one message with the stored body and more_body false.
new_receive ==
  /\ probe.pc = "call_next"
  /\ LET message == RequestMessage(probe.body, FALSE)
     IN  probe' = [probe EXCEPT !.read = message.body, !.pc = "read"]
  /\ UNCHANGED <<variant, redis_pool, cache, rq, written>>

NextBody ==
  \/ get_request_body
  \/ request_body
  \/ new_receive

SpecBody == InitBody /\ [][NextBody]_vars

\* ------------------------------------- the request body of a lost client
DisconnectMessage == [type |-> "http.disconnect", body |-> <<>>, more_body |-> FALSE]

\* The http.request messages of a body whose final chunk never comes: every
\* one of them says more_body.
UnfinishedMessages(chunks) ==
  [i \in 1..Len(chunks) |-> RequestMessage(chunks[i], TRUE)]

\* A client has sent some chunks of a body, all of it or only a front part,
\* and is gone; the litestar middleware starts reading.
InitDisconnect ==
  /\ variant = "litestar"
  /\ redis_pool = "Pool"
  /\ cache = [k \in RedisKeys |-> None]
  /\ written = [k \in RedisKeys |-> NoWrite]
  /\ rq = [r \in Req |-> IdleTask]
  /\ \/ \E chunks \in ChunkLists :
          probe = [pc |-> "receive", chunks |-> chunks,
                   stream |-> RequestMessages(chunks),
                   body |-> <<>>, more_body |-> TRUE, read |-> <<>>,
                   disconnected |-> FALSE]
     \/ \E chunks \in ChunkLists \cup {<<>>} :
          probe = [pc |-> "receive", chunks |-> chunks,
                   stream |-> UnfinishedMessages(chunks),
                   body |-> <<>>, more_body |-> TRUE, read |-> <<>>,
                   disconnected |-> TRUE]

\* The server's receive once the client is gone and its messages are used
\* up: every call yields http.disconnect.
receive_disconnect ==
  /\ probe.pc = "receive"
  /\ probe.disconnected
  /\ probe.stream = <<>>
  /\ probe' = [probe EXCEPT !.stream = <<DisconnectMessage>>]
  /\ UNCHANGED <<variant, redis_pool, cache, rq, written>>

NextDisconnect ==
  \/ get_request_body
  \/ receive_disconnect

\* The event loop runs the coroutine and the server answers receive.
SpecDisconnect ==
  /\ InitDisconnect
  /\ [][NextDisconnect]_vars
  /\ WF_vars(get_request_body)
  /\ WF_vars(receive_disconnect)

\* ------------------------------------------------------- database sessions
\* The three session generators: src/app/dependencies/constructors.py has
\* db_session and db_session_autocommit, SAProvider has new_session.
SessionProviders == {"db_session", "db_session_autocommit", "new_session"}

\* Generators with an `else: await session.commit()` clause.
Autocommit == {"db_session_autocommit", "new_session"}

\* How the block that uses the session ends, as the generator sees it at its
\* yield: resumed normally, or an exception thrown in (GeneratorExit when
\* the generator is closed).
BlockOutcomes == {"ok", "SQLAlchemyError", "OtherError", "GeneratorExit"}

\* A block that ended in any way but with SQLAlchemyError is taken for one
\* that finished: the commit stands in a finally clause.
AfterYield_CommitInFinally(provider, outcome) ==
  IF outcome = "SQLAlchemyError" THEN "except"
  ELSE IF provider \in Autocommit THEN "else"
  ELSE "finally"

\* try: yield session / except SQLAlchemyError: / else: / finally:
\* the clause the generator goes to from its yield.
AfterYield(provider, outcome) ==
  IF outcome = "SQLAlchemyError" THEN "except"
  ELSE IF outcome = "ok" /\ provider \in Autocommit THEN "else"
  ELSE "finally"

\* A generator is about to be called; its user's block will end in some way
\* and the commit, if it comes to one, succeeds or raises.
InitSession ==
  /\ variant = "fastapi"
  /\ redis_pool = "Pool"
  /\ cache = [k \in RedisKeys |-> None]
  /\ written = [k \in RedisKeys |-> NoWrite]
  /\ rq = [r \in Req |-> IdleTask]
  /\ \E provider \in SessionProviders, outcome \in BlockOutcomes,
        commit_raises \in BOOLEAN, statements \in 0..MaxStatements :
       probe = [pc |-> "start", provider |-> provider, outcome |-> outcome,
                commit_raises |-> commit_raises, statements |-> statements,
                calls |-> <<>>, raised |-> "none"]

\* session = maker(); yield session
maker ==
  /\ probe.pc = "start"
  /\ probe' = [probe EXCEPT !.pc = "yield", !.calls = Append(@, "maker")]
  /\ UNCHANGED <<variant, redis_pool, cache, rq, written>>

\* The user's block executes one statement on the session.
execute ==
  /\ probe.pc = "yield"
  /\ probe.statements > 0
  /\ probe' = [probe EXCEPT !.statements = @ - 1, !.calls = Append(@, "execute")]
  /\ UNCHANGED <<variant, redis_pool, cache, rq, written>>

\* The user's block ends and the generator is resumed at its yield.
resume ==
  /\ probe.pc = "yield"
  /\ probe.statements = 0
  /\ probe' = [probe EXCEPT !.pc = AfterYield(probe.provider, probe.outcome),
                            !.raised = IF probe.outcome = "ok" THEN "none"
                                       ELSE probe.outcome]
  /\ UNCHANGED <<variant, redis_pool, cache, rq, written>>

\* except SQLAlchemyError: await session.rollback(); raise
rollback ==
  /\ probe.pc = "except"
  /\ probe' = [probe EXCEPT !.pc = "finally", !.calls = Append(@, "rollback")]
  /\ UNCHANGED <<variant, redis_pool, cache, rq, written>>

\* else: await session.commit()
commit ==
  /\ probe.pc = "else"
  /\ probe' = [probe EXCEPT !.pc = "finally", !.calls = Append(@, "commit"),
                            !.raised = IF probe.commit_raises
                                         THEN "SQLAlchemyError" ELSE @]
  /\ UNCHANGED <<variant, redis_pool, cache, rq, written>>

\* finally: await session.close(); whatever was raised leaves the generator
close ==
  /\ probe.pc = "finally"
  /\ probe' = [probe EXCEPT !.pc = "returned", !.calls = Append(@, "close")]
  /\ UNCHANGED <<variant, redis_pool, cache, rq, written>>

NextSession ==
  \/ maker
  \/ execute
  \/ resume
  \/ rollback
  \/ commit
  \/ close

SpecSession == InitSession /\ [][NextSession]_vars

\* --------------------------------------------------- ClickHouse migrations
Max(S) == CHOOSE x \in S : \A y \in S : y <= x
Min(S) == CHOOSE x \in S : \A y \in S : x <= y

\* sorted(cls._migrations, key=lambda obj: obj.version), as the versions
RECURSIVE get_migrations(_)
get_migrations(registered) ==
  IF registered = {} THEN <<>>
  ELSE <<Min(registered)>> \o get_migrations(registered \ {Min(registered)})

\* The sets of versions the ClickhouseMigration subclasses of a code base
\* can have: any numbers from 1 up, with or without gaps.
Registries == (SUBSET (1..MaxVersion)) \ {{}}

\* The schema_versions tables the commands of such a code base leave behind:
\* the lowest registered versions up to some point.
Tables(registered) ==
  { { v \in registered : v <= top } : top \in 0..MaxVersion }

\* SELECT MAX(version) FROM schema_versions, 0 when the table is empty
MaxVersionOf(table) == IF table = {} THEN 0 ELSE Max(table)

\* The test of migrate's loop with > in place of >=.
Skips_OnlyBelow(current_version, version) == current_version > version

\* if current_version >= migration.version: continue
Skips(current_version, version) == current_version >= version

\* A code base with its migrations and a database in one of the states the
\* commands leave it in.
InitMigrations ==
  /\ variant = "fastapi"
  /\ redis_pool = "Pool"
  /\ cache = [k \in RedisKeys |-> None]
  /\ written = [k \in RedisKeys |-> NoWrite]
  /\ rq = [r \in Req |-> IdleTask]
  /\ \E registered \in Registries :
       \E table \in Tables(registered) :
         probe = [pc |-> "shell", registered |-> registered, table |-> table,
                  command |-> "none", current_version |-> 0,
                  migrations |-> <<>>, applied |-> <<>>,
                  version_before |-> 0, last |-> "none", last_applied |-> <<>>,
                  runs |-> 0]

\* The operator runs `clickhouse migrate` or `clickhouse upgrade`.
cli(command) ==
  /\ probe.pc \in {"shell", "done"}
  /\ probe.runs < MaxRuns
  /\ probe' = [probe EXCEPT !.pc = "get_version", !.command = command,
                            !.runs = @ + 1,
                            !.last = probe.command,
                            !.last_applied = probe.applied,
                            !.applied = <<>>]
  /\ UNCHANGED <<variant, redis_pool, cache, rq, written>>

\* current_version = await get_version(ch), and the loop is entered
get_version ==
  /\ probe.pc = "get_version"
  /\ probe' = [probe EXCEPT !.pc = "for",
                            !.current_version = MaxVersionOf(probe.table),
                            !.version_before = MaxVersionOf(probe.table),
                            !.migrations = get_migrations(probe.registered)]
  /\ UNCHANGED <<variant, redis_pool, cache, rq, written>>

\* migrate: one turn of `for migration in ClickhouseMigration.get_migrations()`
migrate ==
  /\ probe.pc = "for"
  /\ probe.command = "migrate"
  /\ probe.migrations # <<>>
  /\ LET version == Head(probe.migrations)
     IN  probe' = IF Skips(probe.current_version, version)
                    THEN [probe EXCEPT !.migrations = Tail(@)]
                    ELSE [probe EXCEPT !.migrations = Tail(@),
                                       !.table = @ \cup {version},
                                       !.applied = Append(@, version),
                                       !.current_version = version]
  /\ UNCHANGED <<variant, redis_pool, cache, rq, written>>

\* upgrade: one turn of its loop; the break ends it
upgrade ==
  /\ probe.pc = "for"
  /\ probe.command = "upgrade"
  /\ probe.migrations # <<>>
  /\ LET version == Head(probe.migrations)
     IN  probe' = IF probe.current_version + 1 = version
                    THEN [probe EXCEPT !.migrations = <<>>,
                                       !.table = @ \cup {version},
                                       !.applied = Append(@, version)]
                    ELSE [probe EXCEPT !.migrations = Tail(@)]
  /\ UNCHANGED <<variant, redis_pool, cache, rq, written>>

\* The loop is over and the command returns.
return ==
  /\ probe.pc = "for"
  /\ probe.migrations = <<>>
  /\ probe' = [probe EXCEPT !.pc = "done"]
  /\ UNCHANGED <<variant, redis_pool, cache, rq, written>>

NextMigrations ==
  \/ \E command \in {"migrate", "upgrade"} : cli(command)
  \/ get_version
  \/ migrate
  \/ upgrade
  \/ return

SpecMigrations == InitMigrations /\ [][NextMigrations]_vars

\* ------------------------------------------------------------------ claims
\* The request is one the middleware is to intercept: POST, PUT or PATCH with
\* a non-empty X-Idempotency-Key header.
Protected(q) ==
  /\ q.method \in {<<"P","O","S","T">>, <<"P","U","T">>, <<"P","A","T","C","H">>}
  /\ q.key # None
  /\ q.key # Some(<<>>)

IsPrefix(s, t) == Len(s) <= Len(t) /\ s = SubSeq(t, 1, Len(s))

Started == { r \in Req : rq[r].pc # "idle" }
Done    == { r \in Req : rq[r].pc = "done" }

\* C1: a request whose key held an unexpired record at the moment of its cache
\* lookup never reaches the downstream handler: it is finished by the lookup,
\* answered from the record, with no handler invocation on its account.
C1_HitNeverInvokesHandler ==
  \A r \in Req :
    rq[r].lookup = "hit" =>
      /\ rq[r].invoked = 0
      /\ rq[r].pc = "done"
      /\ rq[r].err = "none"
      /\ rq[r].sent # <<>>

\* Two identical requests one after the other: the first ran the handler and
\* stored, the second was served from the record, one side effect in all.
C1_Witness ==
  \E r1, r2 \in Done :
    /\ r1 # r2
    /\ rq[r1].req = rq[r2].req
    /\ rq[r1].lookup = "miss" /\ rq[r1].invoked = 1 /\ rq[r1].wrote = 1
    /\ rq[r2].lookup = "hit" /\ rq[r2].invoked = 0
    /\ LiveRecord(cache[rq[r1].key])

\* C4: only a protected request is intercepted; any other request causes no
\* cache read and no cache write, reaches the handler once each time it is
\* sent, and its client gets the handler's messages (or its exception) as is.
C4_OnlyProtectedIntercepted ==
  \A r \in Started :
    /\ (rq[r].intercepted \/ rq[r].lookup # "none" \/ rq[r].wrote > 0)
         => Protected(rq[r].req)
    /\ ~Protected(rq[r].req) =>
         /\ rq[r].pc \in {"call_next", "done"}
         /\ rq[r].lookup = "none"
         /\ rq[r].wrote = 0
         /\ ~rq[r].set_failed
         /\ rq[r].pc = "done" =>
              /\ rq[r].invoked = 1
              /\ \/ rq[r].err = "HandlerError" /\ rq[r].sent = <<>>
                 \/ rq[r].err = "none" /\ rq[r].sent = Messages(rq[r].resp)

\* The same GET carrying the key header was sent twice and reached the
\* handler both times, while the cache stayed empty.
C4_Witness ==
  \E r1, r2 \in Done :
    /\ r1 # r2
    /\ rq[r1].req = rq[r2].req
    /\ rq[r1].req.method = GET /\ rq[r1].req.key = Some(<<"k">>)
    /\ rq[r1].invoked = 1 /\ rq[r2].invoked = 1
    /\ \A k \in RedisKeys : cache[k] = None

\* C5: nothing is written to the cache by a task between its lookup and its
\* store (no in-flight marker, no lock), so two tasks with one fingerprint
\* can both miss and both run the handler before either has stored.
C5_NoMarkerBetweenLookupAndStore ==
  [][\A r \in Req :
       (rq[r].pc \in {"get", "call_next", "send"} /\ rq'[r] # rq[r])
         => cache' = cache]_vars

\* Two tasks with the same fingerprint have both missed and both run the
\* handler, and the key is still absent.
C5_Witness ==
  \E r1, r2 \in Req :
    /\ r1 # r2
    /\ rq[r1].intercepted /\ rq[r2].intercepted
    /\ rq[r1].key = rq[r2].key
    /\ rq[r1].lookup = "miss" /\ rq[r2].lookup = "miss"
    /\ rq[r1].invoked = 1 /\ rq[r2].invoked = 1
    /\ rq[r1].wrote = 0 /\ rq[r2].wrote = 0
    /\ rq[r1].pc = "set" /\ rq[r2].pc = "set"
    /\ cache[rq[r1].key] = None

C6_RecordNeverOverwritten ==
  [][\A k \in RedisKeys :
       (LiveRecord(cache[k]) /\ LiveRecord(cache'[k])) =>
         /\ cache'[k][1].val = cache[k][1].val
         /\ cache'[k][1].ex <= cache[k][1].ex]_vars

\* C6 as amended: a stored record is replaced or has its ttl restarted before
\* it expires or is evicted only by the cache write of a task with the same
\* fingerprint that had already looked the key up, finding no record, when
\* the record was stored; a task that looked the key up after the store
\* never writes over it.
C6_OverwriteOnlyByConcurrentMiss ==
  [][\A k \in RedisKeys :
       (/\ LiveRecord(cache[k]) /\ LiveRecord(cache'[k])
        /\ \/ cache'[k][1].val # cache[k][1].val
           \/ cache'[k][1].ex > cache[k][1].ex)
         => \E r \in written[k].conc :
              /\ rq[r].pc = "set" /\ rq[r].key = k /\ rq[r].lookup # "hit"
              /\ rq'[r].wrote = rq[r].wrote + 1]_vars

\* A task that had missed before the record was stored has written over it
\* with a different record.
C6_Witness ==
  \E r1, r2 \in Done :
    /\ r1 # r2
    /\ rq[r1].key = rq[r2].key
    /\ rq[r1].wrote = 1 /\ ~rq[r1].overwrote
    /\ rq[r2].wrote = 1 /\ rq[r2].overwrote /\ rq[r2].lookup = "miss"
    /\ join(rq[r1].resp.chunks) # join(rq[r2].resp.chunks)
    /\ LiveRecord(cache[rq[r2].key])
    /\ cache[rq[r2].key][1].val.data.body = join(rq[r2].resp.chunks)

\* C7: a cache lookup that fails is handled as a miss: the request reaches
\* the handler and the client is given no error caused by the cache.
C7_GetFailureIsMiss ==
  \A r \in Done :
    rq[r].lookup = "fail" =>
      /\ rq[r].invoked = 1
      /\ rq[r].err # "CacheError"

\* C8: when the cache write fails after a successful handler response, the
\* client still has that response, complete and unchanged.
C8_PutFailureKeepsResponse ==
  \A r \in Done :
    rq[r].set_failed => rq[r].sent = Messages(rq[r].resp)

\* C9: a value under the key that cannot be decoded into a record does not
\* fail the request: the handler is invoked as on a miss.
C9_CorruptIsMiss ==
  \A r \in Done :
    rq[r].lookup = "corrupt" =>
      /\ rq[r].err # "DecodeError"
      /\ rq[r].invoked = 1

C12_ExpiredRecordIsMissAgain ==
  \A r \in Req :
    rq[r].after_expiry =>
      /\ rq[r].lookup = "miss"
      /\ rq[r].replay_src = NoSource
      /\ (rq[r].pc = "done" /\ rq[r].err = "none") =>
           /\ rq[r].invoked = 1
           /\ rq[r].resp.status < 400 => rq[r].wrote = 1

\* A record was stored and has lapsed; the same request came again, ran the
\* handler and stored a record that is in the cache now.
C12_Witness ==
  \E r1, r2 \in Done :
    /\ r1 # r2
    /\ rq[r1].req = rq[r2].req
    /\ rq[r1].wrote = 1
    /\ rq[r2].after_expiry /\ rq[r2].invoked = 1 /\ rq[r2].wrote = 1
    /\ rq[r2].resp.status < 400
    /\ LiveRecord(cache[rq[r2].key])
    /\ written[rq[r2].key].conc = {}

\* C11: the client of an intercepted miss whose handler produced a whole
\* response is given exactly the handler's messages: the same status, header
\* list, body chunks in order and final-chunk marker.
C11_MissDeliveredUnchanged ==
  \A r \in Done :
    (/\ rq[r].intercepted /\ rq[r].lookup = "miss" /\ rq[r].invoked = 1
     /\ rq[r].resp # NoResponse
     /\ rq[r].err \notin {"StreamError", "ClientDisconnect"})
      => rq[r].sent = Messages(rq[r].resp)

\* C18: the step that writes the record is taken when the client has been
\* handed the complete response, through the final body message.
C18_WriteAfterDelivery ==
  [][\A r \in Req :
       rq'[r].wrote > rq[r].wrote => rq[r].sent = Messages(rq[r].resp)]_vars

\* C19: a stored record holds the whole body of the response it was made
\* from, and a request whose delivery stopped before the final body message
\* has written nothing.
C19_OnlyCompleteResponsesStored ==
  /\ \A k \in RedisKeys :
       LiveRecord(cache[k]) =>
         cbor2_loads(cache[k][1].val).body = written[k].src.body
  /\ \A r \in Done :
       rq[r].sent # Messages(rq[r].resp) => rq[r].wrote = 0

\* C13: a lookup that is answered while the key holds an unexpired record is
\* a hit, whatever other requests for the key are in flight: the request is
\* finished by it, with the record's status and body and without a handler
\* invocation.
C13_LookupAfterWriteIsHit ==
  [][\A r \in Req :
       (/\ rq[r].pc = "get"
        /\ LiveRecord(cache[rq[r].key])
        /\ rq'[r] # rq[r]
        /\ rq'[r].lookup # "fail")
         => /\ rq'[r].lookup = "hit"
            /\ rq'[r].pc = "done"
            /\ rq'[r].invoked = 0
            /\ Len(rq'[r].sent) = 2
            /\ rq'[r].sent[1].status = cbor2_loads(cache[rq[r].key][1].val).status_code
            /\ rq'[r].sent[2].body = cbor2_loads(cache[rq[r].key][1].val).body]_vars

\* One request has stored its record; a later one with the same fingerprint
\* looked the key up before the record lapsed and was given the stored body.
C13_Witness ==
  \E r1, r2 \in Done :
    /\ r1 # r2
    /\ rq[r1].key = rq[r2].key
    /\ rq[r1].wrote = 1
    /\ rq[r2].lookup = "hit" /\ rq[r2].wrote = 0 /\ ~rq[r2].after_expiry
    /\ rq[r2].replay_src = written[rq[r1].key].src
    /\ rq[r2].sent[2].body = join(rq[r1].resp.chunks)

\* C20: a replay carries every header value of the response the record was
\* made from, each value of a repeated name included, and every byte of its
\* body in order.
C20_ReplayLosesNothing ==
  \A r \in Req :
    rq[r].lookup = "hit" =>
      /\ \A i \in 1..Len(rq[r].replay_src.headers) :
           \E j \in 1..Len(rq[r].sent[1].headers) :
             rq[r].sent[1].headers[j] =
               <<lower(rq[r].replay_src.headers[i][1]), rq[r].replay_src.headers[i][2]>>
      /\ rq[r].sent[2].body = rq[r].replay_src.body

\* The two requests differ in exactly one of the four fields.
DiffersInOne(a, b) ==
  Cardinality({ f \in {"method", "path", "body", "key"} : a[f] # b[f] }) = 1

\* C14: two requests whose (method, path, body, key) tuples are not equal
\* get different cache keys.
C14_FingerprintInjective ==
  (probe.pc = "hashed" /\ probe.a # probe.b) => probe.key_a # probe.key_b

\* C15: two requests that differ in exactly one of method, path, body and
\* key get different cache keys.
C15_OneFieldChangesFingerprint ==
  (probe.pc = "hashed" /\ DiffersInOne(probe.a, probe.b))
    => probe.key_a # probe.key_b

\* Both keys were computed for two requests that differ in the body alone.
C15_Witness ==
  /\ probe.pc = "hashed"
  /\ DiffersInOne(probe.a, probe.b)
  /\ probe.a.body # probe.b.body
  /\ probe.key_a # <<>> /\ probe.key_b # <<>>

C17_HandlerReadsClientBody ==
  probe.pc = "read" => probe.read = join(probe.chunks)

\* The litestar middleware has consumed a body that came in several
\* non-empty chunks and the handler has read it.
C17_Witness ==
  /\ probe.pc = "read"
  /\ variant = "litestar"
  /\ Len(probe.chunks) >= 2
  /\ \A i \in 1..Len(probe.chunks) : probe.chunks[i] # <<>>
  /\ probe.read = join(probe.chunks)

\* C21: the step in which a request is answered from a record changes nothing
\* in the cache: the record is not rewritten, not deleted, and its remaining
\* ttl is what it was.
C21_HitLeavesCacheUnchanged ==
  [][\A r \in Req :
       (rq[r].pc = "get" /\ rq'[r].lookup = "hit") => cache' = cache]_vars

\* A request was answered from a record whose ttl had partly run down, and
\* the record is still there with less than the full ttl left.
C21_Witness ==
  \E r \in Done :
    /\ rq[r].lookup = "hit"
    /\ LiveRecord(cache[rq[r].key])
    /\ cache[rq[r].key][1].ex < ttl
    /\ written[rq[r].key].src = rq[r].replay_src
    /\ cbor2_loads(cache[rq[r].key][1].val).body = rq[r].sent[2].body

\* C22: a stored record is made of the response of the request that stored
\* it and of nothing else: its body is the whole body of that response, each
\* of its headers is a header of that response, and its status is that
\* response's status or the constant the capture starts from.
C22_RecordFromOwnResponse ==
  \A k \in RedisKeys :
    LiveRecord(cache[k]) =>
      LET d == cbor2_loads(cache[k][1].val)
          own == written[k].src
      IN  /\ d.body = own.body
          /\ \A i \in 1..Len(d.headers) :
               \E j \in 1..Len(own.headers) : own.headers[j] = d.headers[i]
          /\ d.status_code \in {own.status, response_status}

\* Two requests with one fingerprint were in flight together, the handler
\* gave them different bodies, both stored, and the record is the one of the
\* second writer.
C22_Witness ==
  \E r1, r2 \in Done :
    /\ r1 # r2
    /\ rq[r1].key = rq[r2].key
    /\ rq[r1].wrote = 1 /\ rq[r2].wrote = 1
    /\ rq[r2].overwrote /\ ~rq[r1].overwrote
    /\ join(rq[r1].resp.chunks) # join(rq[r2].resp.chunks)
    /\ LiveRecord(cache[rq[r2].key])
    /\ cbor2_loads(cache[rq[r2].key][1].val).body = join(rq[r2].resp.chunks)

\* C23: in the litestar app as it is built the middleware never has a Redis
\* pool; every protected request ends with ValueError before its body is
\* read, the cache looked at or the handler called, and no request task ever
\* stands at a Redis call; every other request reaches the handler once and
\* its client gets the handler's messages or its exception.
C23_NoPoolEveryInterceptedFails ==
  /\ redis_pool = "None"
  /\ \A r \in Started :
       /\ rq[r].pc \notin {"get", "send", "set"}
       /\ Protected(rq[r].req) =>
            /\ rq[r].pc = "done" /\ rq[r].err = "ValueError"
            /\ rq[r].key = <<>> /\ rq[r].lookup = "none"
            /\ rq[r].invoked = 0 /\ rq[r].wrote = 0
            /\ rq[r].sent = <<>>
       /\ (~Protected(rq[r].req) /\ rq[r].pc = "done") =>
            /\ rq[r].invoked = 1
            /\ \/ rq[r].err = "HandlerError" /\ rq[r].sent = <<>>
               \/ rq[r].err = "none" /\ rq[r].sent = Messages(rq[r].resp)

\* A protected request has failed with ValueError and a request without the
\* key header was answered by the handler.
C23_Witness ==
  \E r1, r2 \in Done :
    /\ Protected(rq[r1].req) /\ rq[r1].err = "ValueError" /\ rq[r1].invoked = 0
    /\ rq[r2].req.key = None /\ rq[r2].err = "none"
    /\ rq[r2].sent = Messages(rq[r2].resp)

\* C24: reading the request body comes to an end, whether the final chunk
\* arrives or the client disconnects before it.
C24_BodyReadTerminates == <>(probe.pc # "receive")

\* C25: two requests with the same method, path, body and idempotency key
\* have one cache key whatever their query string and Authorization header,
\* and a request that finds a record under it is served that record, the
\* response made for whoever stored it, without the handler running.
C25_OtherCallerServedFromRecord ==
  /\ \A r1, r2 \in Req :
       (/\ rq[r1].intercepted /\ rq[r2].intercepted
        /\ rq[r1].req.method = rq[r2].req.method
        /\ rq[r1].req.path = rq[r2].req.path
        /\ rq[r1].req.body = rq[r2].req.body
        /\ rq[r1].req.key = rq[r2].req.key)
         => rq[r1].key = rq[r2].key
  /\ \A r \in Req :
       rq[r].lookup = "hit" =>
         /\ rq[r].invoked = 0
         /\ rq[r].sent[2].body = rq[r].replay_src.body

\* alice's request ran the handler and stored; bob's request, with another
\* Authorization header and a query string, was given alice's response body
\* and never reached the handler.
C25_Witness ==
  \E r1, r2 \in Done :
    /\ rq[r1].req.authorization = "alice" /\ rq[r2].req.authorization = "bob"
    /\ rq[r1].req.query # rq[r2].req.query
    /\ rq[r1].invoked = 1 /\ rq[r1].wrote = 1
    /\ rq[r2].lookup = "hit" /\ rq[r2].invoked = 0
    /\ rq[r2].sent[2].body = join(rq[r1].resp.chunks)

\* C26: a request writes to the cache at most once, and only after its one
\* handler invocation; every record in the cache has an expiry, of at most
\* the configured ttl.
C26_OneWriteWithTtl ==
  /\ \A r \in Req :
       /\ rq[r].wrote <= 1
       /\ rq[r].wrote = 1 => (rq[r].invoked = 1 /\ rq[r].lookup = "miss")
  /\ \A k \in RedisKeys :
       LiveRecord(cache[k]) => cache[k][1].ex \in 1..ttl

\* A miss has run the handler and written once, and its record has the
\* whole ttl before it.
C26_Witness ==
  \E r \in Done :
    /\ rq[r].lookup = "miss" /\ rq[r].invoked = 1 /\ rq[r].wrote = 1
    /\ rq[r].err = "none"
    /\ LiveRecord(cache[rq[r].key])
    /\ cache[rq[r].key][1].ex = ttl

\* The request of task r is the only one so far with its fingerprint.
AloneOnKey(r) ==
  /\ rq[r].intercepted
  /\ \A r2 \in Req \ {r} : rq[r2].key # rq[r].key

\* C27: a step of a request leaves the entry of every key but its own as it
\* was; and a request that is alone on its key fares as if it were alone in
\* the deployment, whatever requests with another fingerprint do around it:
\* its lookup is a miss, it overwrites nothing, and what it stored is in the
\* cache under its key as the record of its own response.
C27_OnlyOwnKeyTouched ==
  [][/\ \A r \in Req :
          rq'[r] # rq[r] =>
            \A k \in DOMAIN cache : k # rq'[r].key => cache'[k] = cache[k]
     /\ \A r \in Req :
          AloneOnKey(r) =>
            /\ rq[r].lookup \in {"none", "miss", "fail"}
            /\ ~rq[r].overwrote
            /\ rq[r].wrote = 1 =>
                 /\ LiveRecord(cache[rq[r].key])
                 /\ cbor2_loads(cache[rq[r].key][1].val).body = join(rq[r].resp.chunks)]_vars

\* Two requests with different fingerprints have both run the handler and
\* stored; each key holds the record of its own request, and the two
\* records differ.
C27_Witness ==
  \E r1, r2 \in Done :
    /\ rq[r1].key # rq[r2].key
    /\ rq[r1].wrote = 1 /\ rq[r2].wrote = 1
    /\ LiveRecord(cache[rq[r1].key]) /\ LiveRecord(cache[rq[r2].key])
    /\ cbor2_loads(cache[rq[r1].key][1].val).body = join(rq[r1].resp.chunks)
    /\ cbor2_loads(cache[rq[r2].key][1].val).body = join(rq[r2].resp.chunks)
    /\ join(rq[r1].resp.chunks) # join(rq[r2].resp.chunks)

\* How often a call occurs among the calls made on the session.
Count(call) == Cardinality({ i \in 1..Len(probe.calls) : probe.calls[i] = call })

\* The call was made, and before the close.
BeforeClose(call) ==
  \E i, j \in 1..Len(probe.calls) :
    i < j /\ probe.calls[i] = call /\ probe.calls[j] = "close"

\* C28: for a session of db_session_autocommit or new_session, once the
\* generator has finished: commit was called exactly if the block ended
\* without an exception; after SQLAlchemyError in the block there was a
\* rollback, no commit, and SQLAlchemyError left the generator; close was
\* called once, as the last call, after the commit or rollback.
C28_CommitRollbackClose ==
  /\ probe.provider \in Autocommit =>
       /\ Count("commit") <= 1 /\ Count("rollback") <= 1
       /\ probe.pc \in {"finally", "returned"} =>
            /\ Count("commit") = 1 <=> probe.outcome = "ok"
            /\ probe.outcome = "SQLAlchemyError" =>
                 /\ Count("rollback") = 1 /\ Count("commit") = 0
                 /\ probe.raised = "SQLAlchemyError"
       /\ probe.pc = "returned" =>
            /\ Count("close") = 1
            /\ probe.calls[Len(probe.calls)] = "close"
            /\ Count("commit") = 1 => BeforeClose("commit")
            /\ Count("rollback") = 1 => BeforeClose("rollback")
       /\ probe.pc # "returned" => Count("close") = 0

\* An autocommit session was used for a statement and its block ended well:
\* commit, then close.
C28_Witness ==
  /\ probe.pc = "returned"
  /\ probe.provider = "new_session"
  /\ probe.outcome = "ok"
  /\ probe.calls = <<"maker", "execute", "commit", "close">>

\* The registered versions above the schema version the command found.
Pending == { v \in probe.registered : v > probe.version_before }

\* C29: when migrate has returned it has applied the registered migrations
\* above the version it found, each once and in ascending order, and no
\* other; the recorded version is the highest registered one; and a migrate
\* that follows a migrate has applied nothing.
C29_MigrateAppliesAllPending ==
  (probe.pc = "done" /\ probe.command = "migrate") =>
    /\ probe.applied = get_migrations(Pending)
    /\ \A i, j \in 1..Len(probe.applied) :
         i < j => probe.applied[i] < probe.applied[j]
    /\ MaxVersionOf(probe.table) = Max(probe.registered)
    /\ probe.last = "migrate" => probe.applied = <<>>

\* migrate has skipped the migration at the current version and applied the
\* two above it, and was then run again, applying nothing.
C29_Witness ==
  /\ probe.pc = "done" /\ probe.command = "migrate" /\ probe.last = "migrate"
  /\ probe.registered = {1, 2, 3}
  /\ probe.last_applied = <<2, 3>>
  /\ probe.applied = <<>>
  /\ probe.table = {1, 2, 3}

\* C30: when upgrade has returned it has applied the pending migration with
\* the lowest version, and only that one, if any migration was pending, and
\* nothing otherwise.
C30_UpgradeAppliesLowestPending ==
  (probe.pc = "done" /\ probe.command = "upgrade") =>
    probe.applied = IF Pending = {} THEN <<>> ELSE <<Min(Pending)>>

====
